---- MODULE Spec2Model ----
(***************************************************************************)
(* Model of the disjoint crate: DisjointSet (src/src/disjoint_set.rs), a   *)
(* union-find forest with path compression in root_of and union by rank in *)
(* join.  A DisjointSet is a record [parents, ranks]; both fields are      *)
(* functions over the indices 0 .. len-1, as the two Vecs of the struct.   *)
(*                                                                         *)
(* Two structures are modelled: ds, the structure the calls go to, and     *)
(* other, a second independently built structure used as the operand of    *)
(* ==.  pre/preOther hold the structures as they were when the last call   *)
(* started and last records that call, its arguments and what it returned. *)
(*                                                                         *)
(* DisjointSetVec (src/src/disjoint_set_vec.rs) is the record              *)
(* [data, indices]: data and ds are the two fields of the container the    *)
(* calls go to, dataOther and other those of a second container, preData   *)
(* and preDataOther the values before the last call.  The specifications   *)
(* of the bare DisjointSet leave the four data variables empty.            *)
(***************************************************************************)
EXTENDS Integers, Sequences, FiniteSets, TLC

VARIABLES ds, other, pre, preOther, last,
          data, dataOther, preData, preDataOther, joins

vars == <<ds, other, pre, preOther, last,
          data, dataOther, preData, preDataOther, joins>>

(* Bounds of the model. *)
MaxLen == 4
MaxLenEq == 3

(* ranks: Vec<u8> *)
U8Modulus == 256

-----------------------------------------------------------------------------
(* The struct and its constructors. *)

Empty == [i \in {} |-> 0]

new == [parents |-> Empty, ranks |-> Empty]

(* with_len that fills parents with 0 as it fills ranks. *)
with_len_parents_zero(n) == [parents |-> [i \in 0 .. n - 1 |-> 0],
                             ranks |-> [i \in 0 .. n - 1 |-> 0]]

with_len(n) == [parents |-> [i \in 0 .. n - 1 |-> i],
                ranks |-> [i \in 0 .. n - 1 |-> 0]]

(* with_capacity reserves storage and creates no element; default is new. *)
with_capacity(capacity) == [parents |-> Empty, ranks |-> Empty]

default == new

len(s) == Cardinality(DOMAIN s.parents)

is_empty(s) == DOMAIN s.parents = {}

InBounds(s, id) == id \in DOMAIN s.parents

get_parent(s, id) == s.parents[id]

set_parent(s, id, new_parent) ==
    [s EXCEPT !.parents = [@ EXCEPT ![id] = new_parent]]

-----------------------------------------------------------------------------
(* root_of: the loop of lines 108-117.  Returns the structure with the     *)
(* parent pointers as the walk leaves them, the root found and the number  *)
(* of loop iterations that wrote a parent pointer.  Indexing a Vec outside *)
(* its length panics: get_parent(child) is the first thing root_of does,   *)
(* so an out-of-bounds child panics before any write.                      *)

(* Compression that writes the child itself where the grandparent belongs. *)
RECURSIVE root_of_loop_self_parent(_, _, _, _)
root_of_loop_self_parent(s, child, parent, iters) ==
    LET grandparent == get_parent(s, parent)
    IN  IF parent = grandparent
        THEN [ds |-> s, ret |-> parent, iters |-> iters, panic |-> FALSE]
        ELSE root_of_loop_self_parent(set_parent(s, child, child),
                                      parent, grandparent, iters + 1)

(* The walk returns the child it stands on instead of its parent. *)
RECURSIVE root_of_loop_returns_child(_, _, _, _)
root_of_loop_returns_child(s, child, parent, iters) ==
    LET grandparent == get_parent(s, parent)
    IN  IF parent = grandparent
        THEN [ds |-> s, ret |-> child, iters |-> iters, panic |-> FALSE]
        ELSE root_of_loop_returns_child(set_parent(s, child, grandparent),
                                        parent, grandparent, iters + 1)

(* Path halving: the walk goes on from the grandparent, so every other     *)
(* node of the path keeps its parent.                                      *)
RECURSIVE root_of_loop_halving(_, _, _, _)
root_of_loop_halving(s, child, parent, iters) ==
    LET grandparent == get_parent(s, parent)
    IN  IF parent = grandparent
        THEN [ds |-> s, ret |-> parent, iters |-> iters, panic |-> FALSE]
        ELSE root_of_loop_halving(set_parent(s, child, grandparent),
                                  grandparent, get_parent(s, grandparent),
                                  iters + 1)

(* The walk without the write of the grandparent. *)
RECURSIVE root_of_loop_without_compression(_, _, _, _)
root_of_loop_without_compression(s, child, parent, iters) ==
    LET grandparent == get_parent(s, parent)
    IN  IF parent = grandparent
        THEN [ds |-> s, ret |-> parent, iters |-> iters, panic |-> FALSE]
        ELSE root_of_loop_without_compression(s, parent, grandparent, iters + 1)

RECURSIVE root_of_loop(_, _, _, _)
root_of_loop(s, child, parent, iters) ==
    LET grandparent == get_parent(s, parent)
    IN  IF parent = grandparent
        THEN [ds |-> s, ret |-> parent, iters |-> iters, panic |-> FALSE]
        ELSE root_of_loop(set_parent(s, child, grandparent),
                          parent, grandparent, iters + 1)

(* root_of that stops at the parent of its argument. *)
root_of_returns_parent(s, child) ==
    IF ~InBounds(s, child)
    THEN [ds |-> s, ret |-> 0, iters |-> 0, panic |-> TRUE]
    ELSE [ds |-> s, ret |-> get_parent(s, child), iters |-> 0, panic |-> FALSE]

root_of(s, child) ==
    IF ~InBounds(s, child)
    THEN [ds |-> s, ret |-> 0, iters |-> 0, panic |-> TRUE]
    ELSE LET parent == get_parent(s, child)
         IN  IF child = parent
             THEN [ds |-> s, ret |-> child, iters |-> 0, panic |-> FALSE]
             ELSE root_of_loop(s, child, parent, 0)

(* is_joined that resolves the root of its first argument only. *)
is_joined_second_parent(s, first_element, second_element) ==
    LET r1 == root_of(s, first_element)
    IN  IF r1.panic \/ ~InBounds(s, second_element)
        THEN [ds |-> r1.ds, ret |-> FALSE, panic |-> TRUE]
        ELSE [ds |-> r1.ds, ret |-> (r1.ret = get_parent(r1.ds, second_element)),
              panic |-> FALSE]

(* is_joined: root_of(first) runs before root_of(second), on the pointers  *)
(* the first call left.                                                    *)
is_joined(s, first_element, second_element) ==
    LET r1 == root_of(s, first_element)
        r2 == root_of(r1.ds, second_element)
    IN  IF r1.panic
        THEN [ds |-> s, ret |-> FALSE, panic |-> TRUE]
        ELSE IF r2.panic
             THEN [ds |-> r1.ds, ret |-> FALSE, panic |-> TRUE]
             ELSE [ds |-> r2.ds, ret |-> (r1.ret = r2.ret), panic |-> FALSE]

-----------------------------------------------------------------------------
(* join.  slow_path is only entered with both arguments in bounds.         *)

(* slow_path that links the argument instead of its root. *)
slow_path_link_argument(s, first_element, second_element) ==
    LET r1 == root_of(s, first_element)
        r2 == root_of(r1.ds, second_element)
        root_first == r1.ret
        root_second == r2.ret
        t == r2.ds
        rank_second == t.ranks[root_second]
        rank_first == t.ranks[root_first]
    IN  IF root_first = root_second
        THEN [ds |-> t, ret |-> FALSE, panic |-> FALSE]
        ELSE IF rank_first < rank_second
             THEN [ds |-> set_parent(t, first_element, root_second),
                   ret |-> TRUE, panic |-> FALSE]
             ELSE LET u == IF rank_first = rank_second
                           THEN [t EXCEPT !.ranks =
                                   [@ EXCEPT ![root_first] = (rank_first + 1) % U8Modulus]]
                           ELSE t
                  IN  [ds |-> set_parent(u, second_element, root_first),
                       ret |-> TRUE, panic |-> FALSE]

(* slow_path without the return for arguments that share their root. *)
slow_path_without_same_root_return(s, first_element, second_element) ==
    LET r1 == root_of(s, first_element)
        r2 == root_of(r1.ds, second_element)
        root_first == r1.ret
        root_second == r2.ret
        t == r2.ds
        rank_second == t.ranks[root_second]
        rank_first == t.ranks[root_first]
    IN  IF rank_first < rank_second
        THEN [ds |-> set_parent(t, root_first, root_second),
              ret |-> TRUE, panic |-> FALSE]
        ELSE LET u == IF rank_first = rank_second
                      THEN [t EXCEPT !.ranks =
                              [@ EXCEPT ![root_first] = (rank_first + 1) % U8Modulus]]
                      ELSE t
             IN  [ds |-> set_parent(u, root_second, root_first),
                  ret |-> TRUE, panic |-> FALSE]

(* slow_path that on a rank tie makes the second root the parent. *)
slow_path_tie_under_second(s, first_element, second_element) ==
    LET r1 == root_of(s, first_element)
        r2 == root_of(r1.ds, second_element)
        root_first == r1.ret
        root_second == r2.ret
        t == r2.ds
        rank_second == t.ranks[root_second]
        rank_first == t.ranks[root_first]
    IN  IF root_first = root_second
        THEN [ds |-> t, ret |-> FALSE, panic |-> FALSE]
        ELSE IF rank_first < rank_second
             THEN [ds |-> set_parent(t, root_first, root_second),
                   ret |-> TRUE, panic |-> FALSE]
             ELSE IF rank_first = rank_second
                  THEN LET u == [t EXCEPT !.ranks =
                                   [@ EXCEPT ![root_second] = (rank_second + 1) % U8Modulus]]
                       IN  [ds |-> set_parent(u, root_first, root_second),
                            ret |-> TRUE, panic |-> FALSE]
                  ELSE [ds |-> set_parent(t, root_second, root_first),
                        ret |-> TRUE, panic |-> FALSE]

(* slow_path that never increments a rank. *)
slow_path_without_rank_increment(s, first_element, second_element) ==
    LET r1 == root_of(s, first_element)
        r2 == root_of(r1.ds, second_element)
        root_first == r1.ret
        root_second == r2.ret
        t == r2.ds
        rank_second == t.ranks[root_second]
        rank_first == t.ranks[root_first]
    IN  IF root_first = root_second
        THEN [ds |-> t, ret |-> FALSE, panic |-> FALSE]
        ELSE IF rank_first < rank_second
             THEN [ds |-> set_parent(t, root_first, root_second),
                   ret |-> TRUE, panic |-> FALSE]
             ELSE [ds |-> set_parent(t, root_second, root_first),
                   ret |-> TRUE, panic |-> FALSE]

(* slow_path that increments the rank of the first root whenever it        *)
(* becomes the parent, tie or not.                                         *)
slow_path_rank_always_incremented(s, first_element, second_element) ==
    LET r1 == root_of(s, first_element)
        r2 == root_of(r1.ds, second_element)
        root_first == r1.ret
        root_second == r2.ret
        t == r2.ds
        rank_second == t.ranks[root_second]
        rank_first == t.ranks[root_first]
    IN  IF root_first = root_second
        THEN [ds |-> t, ret |-> FALSE, panic |-> FALSE]
        ELSE IF rank_first < rank_second
             THEN [ds |-> set_parent(t, root_first, root_second),
                   ret |-> TRUE, panic |-> FALSE]
             ELSE LET u == [t EXCEPT !.ranks =
                              [@ EXCEPT ![root_first] = (rank_first + 1) % U8Modulus]]
                  IN  [ds |-> set_parent(u, root_second, root_first),
                       ret |-> TRUE, panic |-> FALSE]

slow_path(s, first_element, second_element) ==
    LET r1 == root_of(s, first_element)
        r2 == root_of(r1.ds, second_element)
        root_first == r1.ret
        root_second == r2.ret
        t == r2.ds
        rank_second == t.ranks[root_second]
        rank_first == t.ranks[root_first]
    IN  IF root_first = root_second
        THEN [ds |-> t, ret |-> FALSE, panic |-> FALSE]
        ELSE IF rank_first < rank_second
             THEN [ds |-> set_parent(t, root_first, root_second),
                   ret |-> TRUE, panic |-> FALSE]
             ELSE LET u == IF rank_first = rank_second
                           THEN [t EXCEPT !.ranks =
                                   [@ EXCEPT ![root_first] = (rank_first + 1) % U8Modulus]]
                           ELSE t
                  IN  [ds |-> set_parent(u, root_second, root_first),
                       ret |-> TRUE, panic |-> FALSE]

(* join that reports a merge whenever the immediate parents differ. *)
join_true_after_parent_check(s, first_element, second_element) ==
    IF ~InBounds(s, first_element) \/ ~InBounds(s, second_element)
    THEN [ds |-> s, ret |-> FALSE, panic |-> TRUE]
    ELSE IF get_parent(s, first_element) = get_parent(s, second_element)
         THEN [ds |-> s, ret |-> FALSE, panic |-> FALSE]
         ELSE [slow_path(s, first_element, second_element) EXCEPT !.ret = TRUE]

(* join without the immediate parent check: the second argument is only    *)
(* indexed after root_of has walked from the first.                        *)
join_without_parent_check(s, first_element, second_element) ==
    IF ~InBounds(s, first_element)
    THEN [ds |-> s, ret |-> FALSE, panic |-> TRUE]
    ELSE IF ~InBounds(s, second_element)
         THEN [ds |-> root_of(s, first_element).ds, ret |-> FALSE, panic |-> TRUE]
         ELSE slow_path(s, first_element, second_element)

(* join with the immediate parent check negated. *)
join_inverted_parent_check(s, first_element, second_element) ==
    IF ~InBounds(s, first_element) \/ ~InBounds(s, second_element)
    THEN [ds |-> s, ret |-> FALSE, panic |-> TRUE]
    ELSE IF get_parent(s, first_element) # get_parent(s, second_element)
         THEN [ds |-> s, ret |-> FALSE, panic |-> FALSE]
         ELSE slow_path(s, first_element, second_element)

(* The immediate parent check of line 265 indexes parents with both        *)
(* arguments, first_element first, before anything is written.             *)
join(s, first_element, second_element) ==
    IF ~InBounds(s, first_element) \/ ~InBounds(s, second_element)
    THEN [ds |-> s, ret |-> FALSE, panic |-> TRUE]
    ELSE IF get_parent(s, first_element) = get_parent(s, second_element)
         THEN [ds |-> s, ret |-> FALSE, panic |-> FALSE]
         ELSE slow_path(s, first_element, second_element)

(* Vec::push: the value goes behind the elements the Vec holds. *)
push(v, x) ==
    [i \in 0 .. Cardinality(DOMAIN v) |-> IF i \in DOMAIN v THEN v[i] ELSE x]

(* add_singleton that makes the new element a child of its predecessor. *)
add_singleton_parent_before(s) ==
    LET id == len(s)
    IN  [ds |-> [parents |-> push(s.parents, IF id > 0 THEN id - 1 ELSE id),
                 ranks |-> push(s.ranks, 0)],
         ret |-> id]

(* add_singleton that takes the new index after pushing. *)
add_singleton_id_after_push(s) ==
    LET id == len(s) + 1
    IN  [ds |-> [parents |-> push(s.parents, id), ranks |-> push(s.ranks, 0)],
         ret |-> id]

add_singleton(s) ==
    LET id == len(s)
    IN  [ds |-> [parents |-> push(s.parents, id), ranks |-> push(s.ranks, 0)],
         ret |-> id]

(* clone that copies the length only. *)
clone_as_singletons(s) == with_len(len(s))

(* derive(Clone): every Cell of parents and every rank is copied into new  *)
(* vectors of the same length.                                             *)
clone(s) ==
    [parents |-> [i \in DOMAIN s.parents |-> get_parent(s, i)],
     ranks |-> [i \in DOMAIN s.ranks |-> s.ranks[i]]]

(* clear that undoes the joins and keeps the elements. *)
clear_keeps_elements(s) == with_len(len(s))

(* clear that forgets to clear ranks. *)
clear_parents_only(s) == [parents |-> Empty, ranks |-> s.ranks]

clear(s) == [parents |-> Empty, ranks |-> Empty]

-----------------------------------------------------------------------------
(* sets: the loop over 0 .. len-1 of lines 403-411.  root_to_result_id is  *)
(* the HashMap, a function from the roots seen so far to positions in      *)
(* result (1-based here, as TLA+ sequences are).                           *)

(* Grouping by the immediate parent instead of the resolved root. *)
RECURSIVE sets_loop_by_parent(_, _, _, _)
sets_loop_by_parent(s, index, result, root_to_result_id) ==
    IF index >= len(s)
    THEN [ds |-> s, ret |-> result]
    ELSE LET root == get_parent(s, index)
             vacant == root \notin DOMAIN root_to_result_id
             result1 == IF vacant THEN Append(result, << >>) ELSE result
             map1 == IF vacant
                     THEN [k \in DOMAIN root_to_result_id \cup {root} |->
                             IF k = root THEN Len(result) + 1
                             ELSE root_to_result_id[k]]
                     ELSE root_to_result_id
             result_id == map1[root]
         IN  sets_loop_by_parent(s, index + 1,
                                 [result1 EXCEPT ![result_id] = Append(@, index)],
                                 map1)

(* A new group is put in front of the result instead of behind it. *)
RECURSIVE sets_loop_new_group_first(_, _, _, _)
sets_loop_new_group_first(s, index, result, root_to_result_id) ==
    IF index >= len(s)
    THEN [ds |-> s, ret |-> result]
    ELSE LET r == root_of(s, index)
             root == r.ret
             vacant == root \notin DOMAIN root_to_result_id
             result1 == IF vacant THEN << << >> >> \o result ELSE result
             map1 == IF vacant
                     THEN [k \in DOMAIN root_to_result_id \cup {root} |->
                             IF k = root THEN 1
                             ELSE root_to_result_id[k] + 1]
                     ELSE root_to_result_id
             result_id == map1[root]
         IN  sets_loop_new_group_first(r.ds, index + 1,
                       [result1 EXCEPT ![result_id] = Append(@, index)],
                       map1)

RECURSIVE sets_loop(_, _, _, _)
sets_loop(s, index, result, root_to_result_id) ==
    IF index >= len(s)
    THEN [ds |-> s, ret |-> result]
    ELSE LET r == root_of(s, index)
             root == r.ret
             vacant == root \notin DOMAIN root_to_result_id
             result1 == IF vacant THEN Append(result, << >>) ELSE result
             map1 == IF vacant
                     THEN [k \in DOMAIN root_to_result_id \cup {root} |->
                             IF k = root THEN Len(result) + 1
                             ELSE root_to_result_id[k]]
                     ELSE root_to_result_id
             result_id == map1[root]
         IN  sets_loop(r.ds, index + 1,
                       [result1 EXCEPT ![result_id] = Append(@, index)],
                       map1)

sets(s) == sets_loop(s, 0, << >>, Empty)

-----------------------------------------------------------------------------
(* PartialEq::eq: returns both operands (their parent pointers are         *)
(* compressed by the root_of calls made before the result is known) and    *)
(* the result.                                                             *)

(* Comparison of the root labels themselves instead of their correspondence. *)
RECURSIVE eq_loop_same_roots(_, _, _, _)
eq_loop_same_roots(self, oth, i, self_root_to_other_root) ==
    IF i >= len(self)
    THEN [self |-> self, other |-> oth, ret |-> TRUE]
    ELSE LET rs == root_of(self, i)
             ro == root_of(oth, i)
         IN  IF ro.ret # rs.ret
             THEN [self |-> rs.ds, other |-> ro.ds, ret |-> FALSE]
             ELSE eq_loop_same_roots(rs.ds, ro.ds, i + 1, self_root_to_other_root)

RECURSIVE eq_loop(_, _, _, _)
eq_loop(self, oth, i, self_root_to_other_root) ==
    IF i >= len(self)
    THEN [self |-> self, other |-> oth, ret |-> TRUE]
    ELSE LET rs == root_of(self, i)
             ro == root_of(oth, i)
             self_root == rs.ret
             other_root == ro.ret
         IN  IF self_root \in DOMAIN self_root_to_other_root
             THEN IF other_root # self_root_to_other_root[self_root]
                  THEN [self |-> rs.ds, other |-> ro.ds, ret |-> FALSE]
                  ELSE eq_loop(rs.ds, ro.ds, i + 1, self_root_to_other_root)
             ELSE eq_loop(rs.ds, ro.ds, i + 1,
                          [k \in DOMAIN self_root_to_other_root \cup {self_root} |->
                             IF k = self_root THEN other_root
                             ELSE self_root_to_other_root[k]])

(* == that accepts a longer right operand. *)
eq_len_at_most(self, oth) ==
    IF len(self) > len(oth)
    THEN [self |-> self, other |-> oth, ret |-> FALSE]
    ELSE eq_loop(self, oth, 0, Empty)

eq(self, oth) ==
    IF len(self) # len(oth)
    THEN [self |-> self, other |-> oth, ret |-> FALSE]
    ELSE eq_loop(self, oth, 0, Empty)

-----------------------------------------------------------------------------
(* The calls of a program that uses the library.  on names the structure a *)
(* call goes to.  Every call records itself in last and the structures it  *)
(* started from in pre and preOther.                                       *)

Call(op, on, a, b, panic, ret, idx, groups) ==
    [op |-> op, on |-> on, a |-> a, b |-> b, panic |-> panic,
     ret |-> ret, idx |-> idx, groups |-> groups]

Get(on) == IF on = "ds" THEN ds ELSE other

(* A call on a DisjointSet leaves the values of the containers alone. *)
KeepData ==
    /\ data' = data
    /\ dataOther' = dataOther
    /\ preData' = data
    /\ preDataOther' = dataOther

Put(on, s) ==
    /\ ds' = IF on = "ds" THEN s ELSE ds
    /\ other' = IF on = "ds" THEN other ELSE s
    /\ pre' = ds
    /\ preOther' = other
    /\ KeepData

(* joins counts, for either structure, the join calls that returned true   *)
(* since the structure was constructed or last cleared.                    *)
NoJoins == joins = [ds |-> 0, other |-> 0]

KeepJoins == joins' = joins

Merged(ret) == IF ret THEN 1 ELSE 0

CountJoin(on, ret) == joins' = [joins EXCEPT ![on] = @ + Merged(ret)]

CountClear(on) == joins' = [joins EXCEPT ![on] = 0]

Join(on, a, b) ==
    LET r == join(Get(on), a, b)
    IN  /\ Put(on, r.ds)
        /\ last' = Call("join", on, a, b, r.panic, r.ret, 0, << >>)
        /\ CountJoin(on, r.ret)

IsJoined(on, a, b) ==
    LET r == is_joined(Get(on), a, b)
    IN  /\ Put(on, r.ds)
        /\ last' = Call("is_joined", on, a, b, r.panic, r.ret, 0, << >>)
        /\ KeepJoins

RootOf(on, a) ==
    LET r == root_of(Get(on), a)
    IN  /\ Put(on, r.ds)
        /\ last' = Call("root_of", on, a, a, r.panic, FALSE, r.ret, << >>)
        /\ KeepJoins

Sets(on) ==
    LET r == sets(Get(on))
    IN  /\ Put(on, r.ds)
        /\ last' = Call("sets", on, 0, 0, FALSE, FALSE, 0, r.ret)
        /\ KeepJoins

AddSingleton(on, bound) ==
    /\ len(Get(on)) < bound
    /\ LET r == add_singleton(Get(on))
       IN  /\ Put(on, r.ds)
           /\ last' = Call("add_singleton", on, 0, 0, FALSE, FALSE, r.ret, << >>)
           /\ KeepJoins

Clear(on) ==
    /\ Put(on, clear(Get(on)))
    /\ last' = Call("clear", on, 0, 0, FALSE, FALSE, 0, << >>)
    /\ CountClear(on)

Untouched(on) == IF on = "ds" THEN "other" ELSE "ds"

(* let copy = on.clone(), the copy taking the place of the other structure. *)
Clone(on) ==
    /\ Put(Untouched(on), clone(Get(on)))
    /\ last' = Call("clone", on, 0, 0, FALSE, FALSE, 0, << >>)
    /\ joins' = [joins EXCEPT ![Untouched(on)] = joins[on]]

(* ds == other *)
Eq ==
    LET r == eq(ds, other)
    IN  /\ ds' = r.self
        /\ other' = r.other
        /\ pre' = ds
        /\ preOther' = other
        /\ KeepData
        /\ last' = Call("eq", "ds", 0, 0, FALSE, r.ret, 0, << >>)
        /\ KeepJoins

(* other == ds *)
EqRev ==
    LET r == eq(other, ds)
    IN  /\ ds' = r.other
        /\ other' = r.self
        /\ pre' = ds
        /\ preOther' = other
        /\ KeepData
        /\ last' = Call("eq", "other", 0, 0, FALSE, r.ret, 0, << >>)
        /\ KeepJoins

-----------------------------------------------------------------------------
(* Spec: one structure, built by with_len(n), and every call on it with    *)
(* arguments up to MaxLen (so that some are out of bounds).                *)

Idx == 0 .. MaxLen

NoData ==
    /\ data = Empty
    /\ dataOther = Empty
    /\ preData = Empty
    /\ preDataOther = Empty

Init ==
    /\ \E n \in 0 .. MaxLen : ds = with_len(n)
    /\ other = new
    /\ pre = ds
    /\ preOther = other
    /\ NoData
    /\ last = Call("with_len", "ds", 0, 0, FALSE, FALSE, 0, << >>)
    /\ NoJoins

Next ==
    \/ \E a, b \in Idx : Join("ds", a, b)
    \/ \E a, b \in Idx : IsJoined("ds", a, b)
    \/ \E a \in Idx : RootOf("ds", a)
    \/ Sets("ds")
    \/ AddSingleton("ds", MaxLen)
    \/ Clear("ds")

Spec == Init /\ [][Next]_vars

(* SpecEq: two structures built independently, by calls with arguments in *)
(* bounds, and compared with ==, in either order.                          *)

InitEq ==
    /\ \E n \in 0 .. MaxLenEq : ds = with_len(n)
    /\ \E n \in 0 .. MaxLenEq : other = with_len(n)
    /\ pre = ds
    /\ preOther = other
    /\ NoData
    /\ last = Call("with_len", "ds", 0, 0, FALSE, FALSE, 0, << >>)
    /\ NoJoins

Targets == {"ds", "other"}

NextEq ==
    \/ \E on \in Targets : \E a, b \in DOMAIN Get(on).parents : Join(on, a, b)
    \/ \E on \in Targets : \E a \in DOMAIN Get(on).parents : RootOf(on, a)
    \/ \E on \in Targets : AddSingleton(on, MaxLenEq)
    \/ \E on \in Targets : Clear(on)
    \/ Eq
    \/ EqRev

SpecEq == InitEq /\ [][NextEq]_vars

(* SpecDeep: one structure of DeepLen elements.  A program first joins     *)
(* pairs of BuildPairs, the pairs that can build a path of three parent    *)
(* steps among eight elements, in any order; then it calls root_of on one  *)
(* element, again and again, with no join in between.                      *)

DeepLen == 8

Pow2(n) == 2 ^ n

BuildPairs ==
    {p \in (0 .. DeepLen - 1) \X (0 .. DeepLen - 1) :
        \E k \in 0 .. DeepLen :
            p[2] = p[1] + Pow2(k) /\ p[1] % Pow2(k + 1) = 0}

InitDeep ==
    /\ ds = with_len(DeepLen)
    /\ other = new
    /\ pre = ds
    /\ preOther = other
    /\ NoData
    /\ last = Call("with_len", "ds", 0, 0, FALSE, FALSE, 0, << >>)
    /\ NoJoins

Build ==
    /\ last.op \in {"with_len", "join"}
    /\ \E p \in BuildPairs : Join("ds", p[1], p[2])

RootOfFirst ==
    /\ last.op # "root_of"
    /\ \E a \in DOMAIN ds.parents : RootOf("ds", a)

RootOfAgain ==
    /\ last.op = "root_of"
    /\ RootOf("ds", last.a)

NextDeep ==
    \/ Build
    \/ RootOfFirst
    \/ RootOfAgain

SpecDeep == InitDeep /\ [][NextDeep]_vars

(* The program does make the next call of its loop of root_of calls. *)
SpecDeepFair == SpecDeep /\ WF_vars(RootOfAgain)

(* SpecClone: two structures, either of which can be replaced by a clone   *)
(* of the other, and calls with arguments in bounds on either.  A join     *)
(* names two different elements, the smaller index first.                  *)

NextClone ==
    \/ \E on \in Targets : \E a, b \in DOMAIN Get(on).parents :
          a < b /\ Join(on, a, b)
    \/ \E on \in Targets : \E a \in DOMAIN Get(on).parents : RootOf(on, a)
    \/ \E on \in Targets : AddSingleton(on, MaxLenEq)
    \/ \E on \in Targets : Clear(on)
    \/ \E on \in Targets : Clone(on)

SpecClone == InitEq /\ [][NextClone]_vars

(* SpecCmp: the calls of Spec on ds, and == against a second structure     *)
(* that is left as with_len built it, of the largest length ds can have or *)
(* one less, so that == meets operands of equal and of different length.   *)

InitCmp ==
    /\ \E n \in 0 .. MaxLen : ds = with_len(n)
    /\ \E n \in {MaxLen - 1, MaxLen} : other = with_len(n)
    /\ pre = ds
    /\ preOther = other
    /\ NoData
    /\ last = Call("with_len", "ds", 0, 0, FALSE, FALSE, 0, << >>)
    /\ NoJoins

NextCmp ==
    \/ Next
    \/ Eq
    \/ EqRev

SpecCmp == InitCmp /\ [][NextCmp]_vars

-----------------------------------------------------------------------------
(* DisjointSetVec<T>: the record [data, indices].  data is a function over *)
(* 0 .. len-1 as the Vec<T> it models; Values are the payloads used.       *)

MaxLenVec == 3

MaxLenVecEq == 2

Values == {0, 1}

DataOfLen(n) == [0 .. n - 1 -> Values]

dsv_new == [data |-> Empty, indices |-> new]

dsv_with_capacity(capacity) ==
    [data |-> Empty, indices |-> with_capacity(capacity)]

(* from that leaves indices empty. *)
dsv_from_without_indices(value) == [data |-> value, indices |-> new]

dsv_from(value) ==
    LET n == Cardinality(DOMAIN value)
    IN  [data |-> value, indices |-> with_len(n)]

dsv_len(v) == Cardinality(DOMAIN v.data)

dsv_is_empty(v) == DOMAIN v.data = {}

values(v) == v.data

indices(v) == v.indices

(* get: Some(value) is <<value>>, None is << >>. *)
dsv_get(v, index) ==
    IF index \in DOMAIN v.data THEN <<v.data[index]>> ELSE << >>

(* push that appends the value only. *)
dsv_push_data_only(v, value) ==
    [dsv |-> [data |-> push(v.data, value), indices |-> v.indices],
     returned |-> << >>]

(* push that adds the singleton in front of the joins made so far. *)
dsv_push_resets_indices(v, value) ==
    [dsv |-> [data |-> push(v.data, value),
              indices |-> with_len(len(v.indices) + 1)],
     returned |-> << >>]

(* push returns (): returned is the empty tuple. *)
dsv_push(v, value) ==
    [dsv |-> [data |-> push(v.data, value),
              indices |-> add_singleton(v.indices).ds],
     returned |-> << >>]

dsv_is_joined(v, first_index, second_index) ==
    LET r == is_joined(v.indices, first_index, second_index)
    IN  [dsv |-> [v EXCEPT !.indices = r.ds], ret |-> r.ret, panic |-> r.panic]

(* join with its arguments shifted by one. *)
dsv_join_shifted(v, first_index, second_index) ==
    LET r == join(v.indices, first_index + 1, second_index + 1)
    IN  [dsv |-> [v EXCEPT !.indices = r.ds], ret |-> r.ret, panic |-> r.panic]

(* join that also copies the value of the first element to the second. *)
dsv_join_copies_value(v, first_index, second_index) ==
    LET r == join(v.indices, first_index, second_index)
    IN  [dsv |-> [data |-> IF r.panic THEN v.data
                           ELSE [v.data EXCEPT ![second_index] = v.data[first_index]],
                  indices |-> r.ds],
         ret |-> r.ret, panic |-> r.panic]

dsv_join(v, first_index, second_index) ==
    LET r == join(v.indices, first_index, second_index)
    IN  [dsv |-> [v EXCEPT !.indices = r.ds], ret |-> r.ret, panic |-> r.panic]

(* index_mut followed by the caller's assignment: container[index] = value. *)
dsv_index_mut(v, index, value) ==
    IF index \notin DOMAIN v.data
    THEN [dsv |-> v, panic |-> TRUE]
    ELSE [dsv |-> [v EXCEPT !.data = [@ EXCEPT ![index] = value]], panic |-> FALSE]

(* iter_mut followed by the caller's writes: element i becomes written[i]. *)
dsv_iter_mut(v, written) ==
    [v EXCEPT !.data = [i \in DOMAIN v.data |-> written[i]]]

(* == that compares the values only. *)
dsv_eq_data_only(l, r) ==
    [self |-> l, other |-> r, ret |-> (l.data = r.data)]

(* derive(PartialEq): data == data && indices == indices, in field order;  *)
(* indices are not compared, and so not compressed, when the values differ.*)
dsv_eq(l, r) ==
    IF l.data # r.data
    THEN [self |-> l, other |-> r, ret |-> FALSE]
    ELSE LET e == eq(l.indices, r.indices)
         IN  [self |-> [l EXCEPT !.indices = e.self],
              other |-> [r EXCEPT !.indices = e.other],
              ret |-> e.ret]

-----------------------------------------------------------------------------
(* The calls on a container.  In SpecVec the container is [data, ds] and   *)
(* other is a bare DisjointSet that receives every grouping call the       *)
(* container receives; retOther is what it returned.                       *)

VecCall(op, on, a, b, panic, ret, retOther, value, returned) ==
    [op |-> op, on |-> on, a |-> a, b |-> b, panic |-> panic, ret |-> ret,
     idx |-> 0, groups |-> << >>,
     retOther |-> retOther, value |-> value, returned |-> returned]

Dsv == [data |-> data, indices |-> ds]
DsvOther == [data |-> dataOther, indices |-> other]
PreDsv == [data |-> preData, indices |-> pre]
PreDsvOther == [data |-> preDataOther, indices |-> preOther]

GetVec(on) == IF on = "ds" THEN Dsv ELSE DsvOther

Remember ==
    /\ pre' = ds
    /\ preOther' = other
    /\ preData' = data
    /\ preDataOther' = dataOther

PutVec(on, v) ==
    /\ ds' = IF on = "ds" THEN v.indices ELSE ds
    /\ data' = IF on = "ds" THEN v.data ELSE data
    /\ other' = IF on = "ds" THEN other ELSE v.indices
    /\ dataOther' = IF on = "ds" THEN dataOther ELSE v.data
    /\ Remember

(* The container and the bare DisjointSet get the same call. *)
PutBoth(v, s) ==
    /\ ds' = v.indices
    /\ data' = v.data
    /\ other' = s
    /\ dataOther' = dataOther
    /\ Remember

VecPushBoth(value) ==
    /\ dsv_len(Dsv) < MaxLenVec
    /\ LET r == dsv_push(Dsv, value)
           e == add_singleton(other)
       IN  /\ PutBoth(r.dsv, e.ds)
           /\ last' = VecCall("push", "ds", 0, 0, FALSE, FALSE, FALSE, value, r.returned)
           /\ KeepJoins

VecJoinBoth(a, b) ==
    LET r == dsv_join(Dsv, a, b)
        e == join(other, a, b)
    IN  /\ PutBoth(r.dsv, e.ds)
        /\ last' = VecCall("join", "ds", a, b, r.panic, r.ret, e.ret, 0, << >>)
        /\ joins' = [ds |-> joins.ds + Merged(r.ret), other |-> joins.other + Merged(e.ret)]

VecIsJoinedBoth(a, b) ==
    LET r == dsv_is_joined(Dsv, a, b)
        e == is_joined(other, a, b)
    IN  /\ PutBoth(r.dsv, e.ds)
        /\ last' = VecCall("is_joined", "ds", a, b, r.panic, r.ret, e.ret, 0, << >>)
        /\ KeepJoins

VecIndexMut(on, index, value) ==
    LET r == dsv_index_mut(GetVec(on), index, value)
    IN  /\ PutVec(on, r.dsv)
        /\ last' = VecCall("index_mut", on, index, index, r.panic, FALSE, FALSE, value, << >>)
        /\ KeepJoins

VecIterMut(on, written) ==
    /\ PutVec(on, dsv_iter_mut(GetVec(on), written))
    /\ last' = VecCall("iter_mut", on, 0, 0, FALSE, FALSE, FALSE, 0, << >>)
    /\ KeepJoins

VecPush(on, value) ==
    /\ dsv_len(GetVec(on)) < MaxLenVecEq
    /\ LET r == dsv_push(GetVec(on), value)
       IN  /\ PutVec(on, r.dsv)
           /\ last' = VecCall("push", on, 0, 0, FALSE, FALSE, FALSE, value, r.returned)
           /\ KeepJoins

VecJoin(on, a, b) ==
    LET r == dsv_join(GetVec(on), a, b)
    IN  /\ PutVec(on, r.dsv)
        /\ last' = VecCall("join", on, a, b, r.panic, r.ret, FALSE, 0, << >>)
        /\ CountJoin(on, r.ret)

(* Dsv == DsvOther *)
VecEq ==
    LET r == dsv_eq(Dsv, DsvOther)
    IN  /\ ds' = r.self.indices
        /\ data' = r.self.data
        /\ other' = r.other.indices
        /\ dataOther' = r.other.data
        /\ Remember
        /\ last' = VecCall("eq", "ds", 0, 0, FALSE, r.ret, FALSE, 0, << >>)
        /\ KeepJoins

(* DsvOther == Dsv *)
VecEqRev ==
    LET r == dsv_eq(DsvOther, Dsv)
    IN  /\ ds' = r.other.indices
        /\ data' = r.other.data
        /\ other' = r.self.indices
        /\ dataOther' = r.self.data
        /\ Remember
        /\ last' = VecCall("eq", "other", 0, 0, FALSE, r.ret, FALSE, 0, << >>)
        /\ KeepJoins

(* SpecVec: one container built by from(values) and, beside it, a          *)
(* DisjointSet built by with_len of the same length.                       *)

IdxVec == 0 .. MaxLenVec

(* The containers a program can construct within the bounds. *)
Constructions ==
    [op : {"new"}, a : {0}, dsv : {dsv_new}]
    \cup {[op |-> "with_capacity", a |-> c, dsv |-> dsv_with_capacity(c)] :
             c \in 0 .. MaxLenVec}
    \cup {[op |-> "from", a |-> Cardinality(DOMAIN value), dsv |-> dsv_from(value)] :
             value \in UNION {DataOfLen(n) : n \in 0 .. MaxLenVec}}

InitVec ==
    /\ \E c \in Constructions :
          /\ data = c.dsv.data
          /\ ds = c.dsv.indices
          /\ other = with_len(dsv_len(c.dsv))
          /\ last = VecCall(c.op, "ds", c.a, 0, FALSE, FALSE, FALSE, 0, << >>)
    /\ dataOther = Empty
    /\ pre = ds
    /\ preOther = other
    /\ preData = data
    /\ preDataOther = dataOther
    /\ NoJoins

NextVec ==
    \/ \E value \in Values : VecPushBoth(value)
    \/ \E a, b \in IdxVec : VecJoinBoth(a, b)
    \/ \E a, b \in IdxVec : VecIsJoinedBoth(a, b)
    \/ \E index \in IdxVec : \E value \in Values : VecIndexMut("ds", index, value)
    \/ \E written \in DataOfLen(dsv_len(Dsv)) : VecIterMut("ds", written)

SpecVec == InitVec /\ [][NextVec]_vars

(* SpecVecEq: two containers built independently and compared with ==, in *)
(* either order.                                                           *)

InitVecEq ==
    /\ \E n \in 0 .. MaxLenVecEq : \E value \in DataOfLen(n) :
          /\ data = dsv_from(value).data
          /\ ds = dsv_from(value).indices
    /\ \E n \in 0 .. MaxLenVecEq : \E value \in DataOfLen(n) :
          /\ dataOther = dsv_from(value).data
          /\ other = dsv_from(value).indices
    /\ pre = ds
    /\ preOther = other
    /\ preData = data
    /\ preDataOther = dataOther
    /\ last = VecCall("from", "ds", 0, 0, FALSE, FALSE, FALSE, 0, << >>)
    /\ NoJoins

NextVecEq ==
    \/ \E on \in Targets : \E a, b \in DOMAIN GetVec(on).data : VecJoin(on, a, b)
    \/ \E on \in Targets : \E value \in Values : VecPush(on, value)
    \/ VecEq
    \/ VecEqRev

SpecVecEq == InitVecEq /\ [][NextVecEq]_vars

-----------------------------------------------------------------------------
(* Vocabulary of the properties.  The set an element is in is defined by   *)
(* following parent pointers to a self-parent, without writing anything.   *)

RECURSIVE Root(_, _)
Root(s, i) == IF s.parents[i] = i THEN i ELSE Root(s, s.parents[i])

Elems(s) == DOMAIN s.parents

SameSet(s, a, b) == Root(s, a) = Root(s, b)

SetOf(s, a) == {x \in Elems(s) : SameSet(s, a, x)}

Partition(s) == {SetOf(s, a) : a \in Elems(s)}

RECURSIVE Depth(_, _)
Depth(s, i) == IF s.parents[i] = i THEN 0 ELSE 1 + Depth(s, s.parents[i])

(* The structure the last call went to, before and after the call. *)
Before == IF last.on = "ds" THEN pre ELSE preOther
After == IF last.on = "ds" THEN ds ELSE other

JoinReturned == last.op = "join" /\ ~last.panic

-----------------------------------------------------------------------------
(* C1: a join with valid arguments returns true exactly when its two       *)
(* arguments were in different sets before the call, and after the call    *)
(* is_joined reports the two arguments joined.                             *)
C1_JoinReturnsTrueIffSeparate ==
    JoinReturned =>
        /\ last.ret = ~SameSet(Before, last.a, last.b)
        /\ is_joined(After, last.a, last.b).ret
        /\ ~is_joined(After, last.a, last.b).panic

(* A join that went through the slow path on a path of length two and      *)
(* found the arguments already joined.                                     *)
C1_Witness ==
    /\ JoinReturned
    /\ ~last.ret
    /\ Before.parents[last.a] # Before.parents[last.b]
    /\ Depth(Before, last.a) = 2

(* C2: a join that returns true replaces the sets of its two arguments by  *)
(* their union and leaves every other set as it was; is_joined of two      *)
(* elements outside those two sets answers as before.                      *)
C2_JoinMergesExactlyTwoSets ==
    (JoinReturned /\ last.ret) =>
        LET A == SetOf(Before, last.a)
            B == SetOf(Before, last.b)
        IN  /\ Elems(After) = Elems(Before)
            /\ Partition(After) = (Partition(Before) \ {A, B}) \cup {A \cup B}
            /\ \A x, y \in Elems(Before) \ (A \cup B) :
                   is_joined(After, x, y).ret = is_joined(Before, x, y).ret

(* Two sets of two elements merged by a join on their non-root members. *)
C2_Witness ==
    /\ JoinReturned
    /\ last.ret
    /\ Cardinality(SetOf(Before, last.a)) = 2
    /\ Cardinality(SetOf(Before, last.b)) = 2
    /\ Before.parents[last.a] # last.a
    /\ Before.parents[last.b] # last.b

(* C3: union monotonicity.  Two elements that is_joined reports joined are *)
(* still reported joined after any one call other than clear (join,        *)
(* root_of, is_joined, sets, ==, add_singleton), and so after any sequence *)
(* of such calls.                                                          *)
JoinedIn(s, a, b) ==
    /\ InBounds(s, a)
    /\ InBounds(s, b)
    /\ is_joined(s, a, b).ret

C3_UnionMonotonicity ==
    last.op # "clear" =>
        \A a, b \in Elems(pre) : JoinedIn(pre, a, b) => JoinedIn(ds, a, b)

(* A query has rewritten a parent pointer of a set of at least three       *)
(* elements, which are all still joined.                                   *)
C3_Witness ==
    /\ last.op \in {"root_of", "is_joined", "sets", "eq"}
    /\ pre.parents # ds.parents
    /\ \E a \in Elems(pre) :
          /\ Cardinality(SetOf(pre, a)) >= 3
          /\ \A x, y \in SetOf(pre, a) : JoinedIn(ds, x, y)

-----------------------------------------------------------------------------
(* The operands of the last ==, as they were before the comparison. *)
EqReturned == last.op = "eq"
Left == IF last.on = "ds" THEN pre ELSE preOther
Right == IF last.on = "ds" THEN preOther ELSE pre

(* C4: two structures of equal length whose partitions differ compare      *)
(* unequal, whichever of them is the left operand.                         *)
C4_DifferentPartitionsUnequal ==
    (EqReturned /\ len(Left) = len(Right) /\ Partition(Left) # Partition(Right))
        => ~last.ret

(* C5: two structures of equal length with the same partition compare      *)
(* equal, whatever their parent pointers, ranks and roots.                 *)
C5_SamePartitionEqual ==
    (EqReturned /\ len(Left) = len(Right) /\ Partition(Left) = Partition(Right))
        => last.ret

(* Equal partitions with a set of two or more elements whose root differs  *)
(* in the two operands.                                                    *)
C5_Witness ==
    /\ EqReturned
    /\ last.ret
    /\ len(Left) = len(Right)
    /\ Partition(Left) = Partition(Right)
    /\ \E i \in Elems(Left) : Root(Left, i) # Root(Right, i)

(* C6: == is symmetric: ds == other and other == ds give the same result.  *)
C6_EqSymmetric == eq(ds, other).ret = eq(other, ds).ret

(* C7: two structures of different length never compare equal.             *)
C7_DifferentLenUnequal ==
    (EqReturned /\ len(Left) # len(Right)) => ~last.ret

(* A comparison of a shorter left operand with a longer right operand that *)
(* agree on the indices they share.                                        *)
C7_Witness ==
    /\ EqReturned
    /\ ~last.ret
    /\ 0 < len(Left)
    /\ len(Left) < len(Right)
    /\ \A i, j \in Elems(Left) : SameSet(Left, i, j) <=> SameSet(Right, i, j)

-----------------------------------------------------------------------------
(* Positions of the groups of a sets() result that hold index i, and how   *)
(* often a group holds it.                                                 *)
GroupsOf(g, i) == {k \in DOMAIN g : \E j \in DOMAIN g[k] : g[k][j] = i}
Occurrences(grp, i) == Cardinality({j \in DOMAIN grp : grp[j] = i})

(* C8: in every reachable state the groups sets() returns partition the    *)
(* indices 0 .. len-1 (each index in exactly one group, once; no empty     *)
(* group; no group at all when len is 0), and two indices share a group    *)
(* exactly when is_joined reports them joined.                             *)
C8_SetsIsThePartition ==
    LET g == sets(ds).ret
    IN  /\ \A k \in DOMAIN g : g[k] # << >>
        /\ \A k \in DOMAIN g : \A j \in DOMAIN g[k] : g[k][j] \in Elems(ds)
        /\ \A i \in Elems(ds) :
              /\ Cardinality(GroupsOf(g, i)) = 1
              /\ \A k \in GroupsOf(g, i) : Occurrences(g[k], i) = 1
        /\ (len(ds) = 0 => g = << >>)
        /\ \A a, b \in Elems(ds) :
              (GroupsOf(g, a) = GroupsOf(g, b)) <=> is_joined(ds, a, b).ret
        /\ (last.op = "sets" => last.groups = g)

(* sets() returned two groups of two indices each, neither of them headed  *)
(* by its root.                                                            *)
C8_Witness ==
    /\ last.op = "sets"
    /\ Len(last.groups) = 2
    /\ \A k \in DOMAIN last.groups :
          /\ Len(last.groups[k]) = 2
          /\ Root(ds, last.groups[k][1]) # last.groups[k][1]

(* C9: in every reachable state the result of sets() is ordered: inside a  *)
(* group the indices are strictly ascending, and the groups are in         *)
(* ascending order of their smallest (first) element.                      *)
C9_SetsIsOrdered ==
    LET g == sets(ds).ret
    IN  /\ \A k \in DOMAIN g : \A i, j \in DOMAIN g[k] :
              i < j => g[k][i] < g[k][j]
        /\ \A k, m \in DOMAIN g :
              (k < m /\ g[k] # << >> /\ g[m] # << >>) => g[k][1] < g[m][1]

(* sets() returned interleaved groups: a group that is not first holds an  *)
(* index below the last index of an earlier group.                         *)
C9_Witness ==
    /\ last.op = "sets"
    /\ \E k, m \in DOMAIN last.groups :
          /\ k < m
          /\ last.groups[m][Len(last.groups[m])] > last.groups[k][Len(last.groups[k])]
          /\ last.groups[m][1] < last.groups[k][Len(last.groups[k])]

(* C10: join with an argument outside 0 .. len-1 panics and leaves the     *)
(* structure as it was: same len, parents and ranks, and sets() as before. *)
JoinOutOfBounds ==
    /\ last.op = "join"
    /\ (~InBounds(Before, last.a) \/ ~InBounds(Before, last.b))

C10_JoinOutOfBoundsChangesNothing ==
    JoinOutOfBounds =>
        /\ last.panic
        /\ len(After) = len(Before)
        /\ After.parents = Before.parents
        /\ After.ranks = Before.ranks
        /\ sets(After).ret = sets(Before).ret

(* join(a, b) with a on a path of length two and b out of bounds. *)
C10_Witness ==
    /\ JoinOutOfBounds
    /\ last.panic
    /\ InBounds(Before, last.a)
    /\ Depth(Before, last.a) = 2

-----------------------------------------------------------------------------
(* C11: is_joined and root_of with an index outside 0 .. len-1 panic, and  *)
(* after the failed call every parent pointer and every rank is as before, *)
(* also for is_joined(a, b) with a in bounds and b out of bounds.          *)
QueryOutOfBounds ==
    \/ last.op = "root_of" /\ ~InBounds(Before, last.a)
    \/ /\ last.op = "is_joined"
       /\ (~InBounds(Before, last.a) \/ ~InBounds(Before, last.b))

C11_QueryOutOfBoundsChangesNothing ==
    QueryOutOfBounds =>
        /\ last.panic
        /\ After.parents = Before.parents
        /\ After.ranks = Before.ranks

(* C12: root_of(a) is a member of the set of a, and root_of(a) followed by *)
(* root_of(b) on the pointers the first call left gives equal results      *)
(* exactly when a and b are in the same set.                               *)
C12_RootOfIdentifiesTheSet ==
    \A a, b \in Elems(ds) :
        LET r1 == root_of(ds, a)
            r2 == root_of(r1.ds, b)
        IN  /\ ~r1.panic /\ ~r2.panic
            /\ r1.ret \in SetOf(ds, a)
            /\ (r1.ret = r2.ret) <=> SameSet(ds, a, b)
            /\ (last.op = "root_of" /\ ~last.panic /\ a = last.a) => r1.ret = last.idx

(* root_of walked a path of length two, rewrote a parent pointer and       *)
(* returned an element that is not the argument's former parent.           *)
C12_Witness ==
    /\ last.op = "root_of"
    /\ ~last.panic
    /\ Depth(Before, last.a) = 2
    /\ last.idx # Before.parents[last.a]
    /\ After.parents # Before.parents

(* C13: the queries root_of, is_joined, sets and == join and separate      *)
(* nothing: after any of them len and every rank are as before, every      *)
(* element has the root it had and every root is still its own parent, in  *)
(* both structures.                                                        *)
SameRoots(s, t) ==
    /\ Elems(t) = Elems(s)
    /\ t.ranks = s.ranks
    /\ \A i \in Elems(s) : Root(t, i) = Root(s, i)
    /\ \A i \in Elems(s) : s.parents[i] = i => t.parents[i] = i

QueryReturned == last.op \in {"root_of", "is_joined", "sets", "eq"}

C13_QueriesKeepRoots ==
    QueryReturned => SameRoots(pre, ds) /\ SameRoots(preOther, other)

(* A == that rewrote a parent pointer of an operand. *)
C13_Witness ==
    /\ last.op = "eq"
    /\ pre.parents # ds.parents
    /\ \E i \in Elems(pre) : Depth(pre, i) = 2 /\ Depth(ds, i) = 1

(* C14: join(a, b) directly after join(a, b), join(b, a) after it, and     *)
(* join(i, i) return false and leave the partition as it is.               *)
JoinChangesNothing(s, a, b) ==
    LET r == join(s, a, b)
    IN  /\ ~r.panic
        /\ ~r.ret
        /\ Partition(r.ds) = Partition(s)

C14_JoinIdempotent ==
    /\ JoinReturned =>
          /\ JoinChangesNothing(After, last.a, last.b)
          /\ JoinChangesNothing(After, last.b, last.a)
    /\ \A i \in Elems(ds) : JoinChangesNothing(ds, i, i)

(* A join has merged two sets and left its arguments with different        *)
(* immediate parents, so that the repeated join resolves both roots.       *)
C14_Witness ==
    /\ JoinReturned
    /\ last.ret
    /\ After.parents[last.a] # After.parents[last.b]
    /\ After.parents[last.a] # last.a
    /\ After.parents[last.b] # last.b

(* C15: add_singleton returns the length before the call, makes len one    *)
(* larger, joins the new element to itself only and changes no is_joined   *)
(* result between the elements there were.                                 *)
C15_AddSingletonAddsASingleton ==
    last.op = "add_singleton" =>
        /\ last.idx = len(Before)
        /\ len(After) = len(Before) + 1
        /\ Elems(After) = Elems(Before) \cup {last.idx}
        /\ is_joined(After, last.idx, last.idx).ret
        /\ \A x \in Elems(Before) :
              /\ ~is_joined(After, x, last.idx).ret
              /\ ~is_joined(After, last.idx, x).ret
        /\ \A x, y \in Elems(Before) :
              is_joined(After, x, y).ret = is_joined(Before, x, y).ret

(* An element was added to a structure whose last element is in a set of   *)
(* two or more.                                                            *)
C15_Witness ==
    /\ last.op = "add_singleton"
    /\ last.idx >= 2
    /\ Cardinality(SetOf(Before, last.idx - 1)) >= 2

(* C16: len is changed by add_singleton (one more) and clear (to 0) only;  *)
(* join, root_of, is_joined, sets and == leave it as it is, in both        *)
(* structures; is_empty holds exactly when len is 0.                       *)
C16_LenChangesOnlyByAddAndClear ==
    /\ last.op \in {"join", "root_of", "is_joined", "sets", "eq"} =>
          len(ds) = len(pre) /\ len(other) = len(preOther)
    /\ last.op = "add_singleton" => len(After) = len(Before) + 1
    /\ last.op = "clear" => len(After) = 0
    /\ is_empty(ds) <=> len(ds) = 0
    /\ is_empty(other) <=> len(other) = 0

(* A structure with joined elements was cleared. *)
C16_Witness ==
    /\ last.op = "clear"
    /\ len(Before) >= 3
    /\ Cardinality(Partition(Before)) < len(Before)
    /\ is_empty(After)

(* C17: clear gives zero length whatever was joined before, and k          *)
(* add_singleton calls after it give the structure with_len(k) builds:     *)
(* indices 0 .. k-1, every element its own parent, all ranks 0.            *)
RECURSIVE AddSingletons(_, _)
AddSingletons(s, k) ==
    IF k = 0 THEN s ELSE AddSingletons(add_singleton(s).ds, k - 1)

C17_ClearThenAddIsWithLen ==
    /\ last.op = "clear" => len(After) = 0
    /\ \A k \in 0 .. MaxLen :
          LET s == AddSingletons(clear(ds), k)
          IN  /\ s = with_len(k)
              /\ len(s) = k
              /\ eq(s, with_len(k)).ret
              /\ \A i, j \in Elems(s) : is_joined(s, i, j).ret <=> i = j
              /\ \A i \in Elems(s) : s.ranks[i] = 0

(* A structure with all its four or more elements in one set, of rank two, *)
(* was cleared.                                                            *)
C17_Witness ==
    /\ last.op = "clear"
    /\ len(Before) >= 4
    /\ Cardinality(Partition(Before)) = 1
    /\ \E i \in Elems(Before) : Before.ranks[i] = 2
    /\ len(After) = 0

(* C18: reflexivity: is_joined(i, i) is true for every valid i in every    *)
(* reachable state, the constructed one included.                          *)
C18_IsJoinedReflexive ==
    \A i \in Elems(ds) :
        LET r == is_joined(ds, i, i)
        IN  ~r.panic /\ r.ret

(* is_joined(i, i) was called for an element two steps from its root. *)
C18_Witness ==
    /\ last.op = "is_joined"
    /\ last.a = last.b
    /\ InBounds(Before, last.a)
    /\ Depth(Before, last.a) = 2
    /\ last.ret

(* C19: symmetry: is_joined(a, b) and is_joined(b, a) return the same      *)
(* value in every reachable state, the second call made on the parent      *)
(* pointers the first left or on the pointers the first started from.      *)
C19_IsJoinedSymmetric ==
    \A a, b \in Elems(ds) :
        LET r1 == is_joined(ds, a, b)
            r2 == is_joined(r1.ds, b, a)
            r3 == is_joined(ds, b, a)
        IN  r1.ret = r2.ret /\ r1.ret = r3.ret

(* is_joined(a, b) rewrote a parent pointer for two distinct elements, one *)
(* of them a root.                                                         *)
C19_Witness ==
    /\ last.op = "is_joined"
    /\ ~last.panic
    /\ last.a # last.b
    /\ Before.parents[last.a] = last.a
    /\ Depth(Before, last.b) = 2
    /\ After.parents # Before.parents
    /\ last.ret

(* C20: with_len(n) builds n elements, each in its own set: len is n,      *)
(* is_joined(i, j) holds for i = j only, root_of(i) is i and sets() is     *)
(* [[0], ..., [n-1]]; new, default, with_len(0) and with_capacity(c) are   *)
(* empty and compare equal to each other.                                  *)
WithLenIsSingletons(n) ==
    LET s == with_len(n)
    IN  /\ len(s) = n
        /\ Elems(s) = 0 .. n - 1
        /\ \A i, j \in 0 .. n - 1 : is_joined(s, i, j).ret <=> i = j
        /\ \A i \in 0 .. n - 1 : root_of(s, i).ret = i
        /\ sets(s).ret = [k \in 1 .. n |-> <<k - 1>>]

EmptyConstructions == {new, default, with_len(0)} \cup {with_capacity(c) : c \in 0 .. MaxLen}

C20_WithLenBuildsSingletons ==
    /\ last.op = "with_len" =>
          /\ ds = with_len(len(ds))
          /\ WithLenIsSingletons(len(ds))
    /\ \A s, t \in EmptyConstructions :
          /\ len(s) = 0
          /\ is_empty(s)
          /\ eq(s, t).ret

(* The structure as with_len built it, with three or more elements. *)
C20_Witness ==
    /\ last.op = "with_len"
    /\ len(ds) >= 3
    /\ ds = pre

-----------------------------------------------------------------------------
(* C29: forest well-formedness in every reachable state: parents and ranks *)
(* have the same length, every parent pointer is an index below len, and   *)
(* following parent pointers from any element reaches an element that is   *)
(* its own parent (so the only cycles are the roots' self-loops).          *)
RECURSIVE Ancestor(_, _, _)
Ancestor(s, i, k) == IF k = 0 THEN i ELSE Ancestor(s, s.parents[i], k - 1)

WellFormed(s) ==
    /\ DOMAIN s.parents = 0 .. len(s) - 1
    /\ DOMAIN s.ranks = DOMAIN s.parents
    /\ \A i \in Elems(s) : s.parents[i] \in Elems(s)
    /\ \A i \in Elems(s) :
          \E k \in 0 .. len(s) :
              s.parents[Ancestor(s, i, k)] = Ancestor(s, i, k)

C29_ForestWellFormed == WellFormed(ds) /\ WellFormed(other)

(* A forest with a path of two parent steps. *)
C29_Witness ==
    /\ WellFormed(ds)
    /\ \E i \in Elems(ds) :
          /\ ds.parents[i] # i
          /\ ds.parents[ds.parents[i]] # ds.parents[i]
    /\ last.op = "join"

(* C30: the immediate parent check of join is an optimisation only: for    *)
(* all valid a, b in every reachable state join returns what full root     *)
(* resolution returns and gives the same partition; equal immediate        *)
(* parents imply the same set, and join returns false for joined elements  *)
(* whose immediate parents differ.                                         *)
C30_ParentCheckIsOptimisation ==
    \A a, b \in Elems(ds) :
        LET fast == join(ds, a, b)
            full == slow_path(ds, a, b)
        IN  /\ fast.ret = full.ret
            /\ Partition(fast.ds) = Partition(full.ds)
            /\ fast.ds.ranks = full.ds.ranks
            /\ (ds.parents[a] = ds.parents[b] => SameSet(ds, a, b))
            /\ (SameSet(ds, a, b) => ~fast.ret)

(* A join of two joined elements with different immediate parents returned *)
(* false, and in the state before it there were two other elements with    *)
(* the same immediate parent.                                              *)
C30_Witness ==
    /\ JoinReturned
    /\ ~last.ret
    /\ last.a # last.b
    /\ Before.parents[last.a] # Before.parents[last.b]
    /\ \E x, y \in Elems(Before) :
          x # y /\ Before.parents[x] = Before.parents[y]

-----------------------------------------------------------------------------
(* Properties of DisjointSetVec.                                           *)

(* C21: the number of stored values equals the length of the indices after *)
(* construction by new, with_capacity and from, and after every push,      *)
(* join, is_joined, indexed write and mutable iteration.                   *)
C21_LengthsInSync ==
    /\ dsv_len(Dsv) = len(indices(Dsv))
    /\ DOMAIN values(Dsv) = Elems(indices(Dsv))
    /\ \A c \in Constructions : dsv_len(c.dsv) = len(c.dsv.indices)

(* A push filled the container to its bound after a join had been made. *)
C21_Witness ==
    /\ last.op = "push"
    /\ dsv_len(Dsv) = MaxLenVec
    /\ dsv_len(PreDsv) = MaxLenVec - 1
    /\ \E i, j \in Elems(ds) : i # j /\ SameSet(ds, i, j)

(* C22: push(v) appends v at index old_len as a new singleton: the length  *)
(* grows by one, the new element is joined to no existing element, and     *)
(* all existing values and all existing is_joined results are unchanged.   *)
C22_PushAppendsSingleton ==
    last.op = "push" =>
        LET old_len == dsv_len(PreDsv)
        IN  /\ dsv_len(Dsv) = old_len + 1
            /\ dsv_get(Dsv, old_len) = <<last.value>>
            /\ \A i \in 0 .. old_len - 1 :
                  /\ dsv_get(Dsv, i) = dsv_get(PreDsv, i)
                  /\ ~dsv_is_joined(Dsv, i, old_len).ret
                  /\ ~dsv_is_joined(Dsv, old_len, i).ret
            /\ \A i, j \in 0 .. old_len - 1 :
                  dsv_is_joined(Dsv, i, j).ret = dsv_is_joined(PreDsv, i, j).ret

(* A value was pushed onto a container holding two joined elements with a  *)
(* different value.                                                        *)
C22_Witness ==
    /\ last.op = "push"
    /\ \E i, j \in Elems(pre) :
          /\ i # j
          /\ SameSet(pre, i, j)
          /\ preData[i] # last.value

(* C23: values and grouping are independent: a write through index         *)
(* assignment or iter_mut changes no is_joined result, and join and        *)
(* is_joined change no stored value.                                       *)
C23_ValuesAndGroupingIndependent ==
    /\ last.op \in {"index_mut", "iter_mut"} =>
          /\ Elems(ds) = Elems(pre)
          /\ \A i, j \in Elems(ds) :
                dsv_is_joined(Dsv, i, j).ret = dsv_is_joined(PreDsv, i, j).ret
    /\ last.op \in {"join", "is_joined"} => values(Dsv) = values(PreDsv)
    /\ \A i, j \in Elems(ds) :
          /\ values(dsv_join(Dsv, i, j).dsv) = values(Dsv)
          /\ values(dsv_is_joined(Dsv, i, j).dsv) = values(Dsv)

(* An indexed write changed the value of an element that is joined to an   *)
(* element with another value.                                             *)
C23_Witness ==
    /\ last.op = "index_mut"
    /\ ~last.panic
    /\ data[last.a] # preData[last.a]
    /\ \E j \in Elems(ds) :
          j # last.a /\ SameSet(ds, j, last.a) /\ data[j] # data[last.a]

(* C24: grouping operations on a container behave as on a DisjointSet of   *)
(* the same length: after the same calls each join and is_joined returns   *)
(* the same on both, and indices() compares equal to the DisjointSet.      *)
C24_GroupingAsDisjointSet ==
    /\ last.op \in {"join", "is_joined"} =>
          /\ last.ret = last.retOther
          /\ last.panic = (last.a \notin Elems(preOther) \/ last.b \notin Elems(preOther))
    /\ eq(indices(Dsv), other).ret
    /\ eq(other, indices(Dsv)).ret
    /\ Partition(indices(Dsv)) = Partition(other)

(* An is_joined of two different elements returned true on the container   *)
(* whose values had been written since.                                    *)
C24_Witness ==
    /\ last.op = "is_joined"
    /\ ~last.panic
    /\ last.ret
    /\ last.a # last.b
    /\ data[last.a] # data[last.b]
    /\ Cardinality(Partition(other)) = 2

VecLeft == IF last.on = "ds" THEN PreDsv ELSE PreDsvOther
VecRight == IF last.on = "ds" THEN PreDsvOther ELSE PreDsv

(* C25: two containers compare equal exactly when their value sequences    *)
(* are equal element by element and their index partitions are identical.  *)
C25_VecEqExact ==
    last.op = "eq" =>
        (last.ret <=>
            /\ values(VecLeft) = values(VecRight)
            /\ Partition(indices(VecLeft)) = Partition(indices(VecRight)))

RECURSIVE PushAll(_, _, _)
PushAll(v, value, i) ==
    IF i \notin DOMAIN value THEN v
    ELSE PushAll(dsv_push(v, value[i]).dsv, value, i + 1)

(* new followed by a push of every element of value, in order. *)
Pushed(value) == PushAll(dsv_new, value, 0)

(* C26: from a sequence of n values gives the container that new and n     *)
(* pushes of those values in order give: length n, the values in the given *)
(* order, every element a singleton.                                       *)
C26_FromIsPushes ==
    /\ last.op = "from" =>
          /\ Dsv = Pushed(data)
          /\ dsv_len(Dsv) = last.a
          /\ \A i, j \in Elems(ds) : dsv_is_joined(Dsv, i, j).ret = (i = j)
    /\ LET built == dsv_from(values(Dsv))
       IN  /\ built = Pushed(values(Dsv))
           /\ dsv_eq(built, Pushed(values(Dsv))).ret
           /\ dsv_len(built) = dsv_len(Dsv)
           /\ \A i \in DOMAIN values(Dsv) : dsv_get(built, i) = <<data[i]>>
           /\ \A i, j \in Elems(built.indices) :
                 dsv_is_joined(built, i, j).ret = (i = j)

(* A container was built from a sequence of MaxLenVec values, not all the  *)
(* same.                                                                   *)
C26_Witness ==
    /\ last.op = "from"
    /\ dsv_len(Dsv) = MaxLenVec
    /\ data[0] # data[MaxLenVec - 1]

(* C27: push returns the index of the element it appended, the length of   *)
(* the container before the call.                                          *)
C27_PushReturnsIndex ==
    last.op = "push" => last.returned = <<dsv_len(PreDsv)>>

-----------------------------------------------------------------------------
(* Union by rank and path compression.                                     *)

Roots(s) == {r \in Elems(s) : s.parents[r] = r}

(* C31: when join(a, b) merges the distinct roots ra and rb, the root of   *)
(* smaller rank is re-parented under the other and no rank changes; on a   *)
(* tie rb is re-parented under ra and rank[ra] grows by exactly one; no    *)
(* other root's parent pointer and no other rank changes.                  *)
C31_UnionByRank ==
    (JoinReturned /\ last.ret) =>
        LET ra == Root(Before, last.a)
            rb == Root(Before, last.b)
            rank_a == Before.ranks[ra]
            rank_b == Before.ranks[rb]
        IN  /\ ra # rb
            /\ rank_a < rank_b =>
                  /\ After.parents[ra] = rb
                  /\ After.parents[rb] = rb
                  /\ After.ranks = Before.ranks
            /\ rank_a > rank_b =>
                  /\ After.parents[rb] = ra
                  /\ After.parents[ra] = ra
                  /\ After.ranks = Before.ranks
            /\ rank_a = rank_b =>
                  /\ After.parents[rb] = ra
                  /\ After.parents[ra] = ra
                  /\ After.ranks = [Before.ranks EXCEPT ![ra] = rank_a + 1]
            /\ \A r \in Roots(Before) \ {ra, rb} : After.parents[r] = r

(* A join of two elements that are not roots merged two sets of rank one,  *)
(* a tie.                                                                  *)
C31_Witness ==
    /\ JoinReturned
    /\ last.ret
    /\ Before.parents[last.a] # last.a
    /\ Before.parents[last.b] # last.b
    /\ Before.ranks[Root(Before, last.a)] = 1
    /\ Before.ranks[Root(Before, last.b)] = 1

(* A join merged a root of smaller rank, the first argument's, into one of *)
(* larger rank.                                                            *)
C31_WitnessSmallerFirst ==
    /\ JoinReturned
    /\ last.ret
    /\ Before.ranks[Root(Before, last.a)] < Before.ranks[Root(Before, last.b)]

(* x is reached from i by one or more parent steps. *)
ProperAncestor(s, i, x) ==
    \E k \in 1 .. len(s) : Ancestor(s, i, k) = x /\ Ancestor(s, i, k - 1) # x

(* C32: a join that returns false changes no rank and changes parent       *)
(* pointers only by path compression: nothing at all when the immediate    *)
(* parents of its arguments are equal, and otherwise every changed parent  *)
(* pointer points to a former proper ancestor of its node.                 *)
C32_FalseJoinOnlyCompresses ==
    (JoinReturned /\ ~last.ret) =>
        /\ After.ranks = Before.ranks
        /\ Elems(After) = Elems(Before)
        /\ Before.parents[last.a] = Before.parents[last.b] => After = Before
        /\ \A x \in Elems(Before) :
              After.parents[x] # Before.parents[x] =>
                  /\ ProperAncestor(Before, x, After.parents[x])
                  /\ After.parents[x] # x

(* A join of two joined elements with different immediate parents returned *)
(* false and changed a parent pointer.                                     *)
C32_Witness ==
    /\ JoinReturned
    /\ ~last.ret
    /\ Before.parents[last.a] # Before.parents[last.b]
    /\ After.parents # Before.parents

(* A join of two elements with the same immediate parent, which is not     *)
(* their root, returned false.                                             *)
C32_WitnessFastPath ==
    /\ JoinReturned
    /\ ~last.ret
    /\ Before.parents[last.a] = Before.parents[last.b]
    /\ Root(Before, last.a) # Before.parents[last.a]

(* C33: in every reachable state rank is an upper bound on height: the     *)
(* number of parent steps from any member of a set to its root r is at     *)
(* most rank[r]; compression by queries keeps the bound.                   *)
C33_RankBoundsHeight ==
    /\ \A x \in Elems(ds) : Depth(ds, x) <= ds.ranks[Root(ds, x)]
    /\ \A a, b \in Elems(ds) :
          LET q == is_joined(ds, a, b).ds
          IN  \A x \in Elems(q) : Depth(q, x) <= q.ranks[Root(q, x)]

(* A query compressed a path in a set whose root has rank two, so that no  *)
(* member is two parent steps from the root any more.                      *)
C33_Witness ==
    /\ last.op \in {"root_of", "is_joined"}
    /\ ~last.panic
    /\ ds # pre
    /\ \E r \in Roots(ds) :
          /\ ds.ranks[r] = 2
          /\ \A x \in SetOf(ds, r) : Depth(ds, x) <= 1
          /\ \E x \in SetOf(pre, r) : Depth(pre, x) = 2

(* C34: in every reachable state a root of rank r heads a set of at least  *)
(* 2^r elements, so every rank is at most floor(log2(len)) and the         *)
(* increment of the 8-bit rank on a tie never overflows.                   *)
C34_RankLogarithmic ==
    /\ \A r \in Roots(ds) : Cardinality(SetOf(ds, r)) >= Pow2(ds.ranks[r])
    /\ \A i \in Elems(ds) : Pow2(ds.ranks[i]) <= len(ds)
    /\ \A i \in Elems(ds) : ds.ranks[i] + 1 < U8Modulus
    /\ (JoinReturned /\ last.ret) =>
          \A i \in Elems(After) :
              After.ranks[i] \in {Before.ranks[i], Before.ranks[i] + 1}

(* A join on a tie of rank one gave a root of rank two heading exactly     *)
(* four elements.                                                          *)
C34_Witness ==
    /\ JoinReturned
    /\ last.ret
    /\ \E r \in Roots(ds) :
          /\ ds.ranks[r] = 2
          /\ pre.ranks[r] = 1
          /\ Cardinality(SetOf(ds, r)) = 4

(* The iterations of the loop of root_of that a call made: none when the   *)
(* argument is its own parent, else the ones that wrote a parent pointer   *)
(* and the one that returned.                                              *)
LoopIterations(s, i) ==
    IF get_parent(s, i) = i THEN 0 ELSE root_of(s, i).iters + 1

(* C35: root_of(i) terminates for every valid i in every reachable state,  *)
(* after at most as many loop iterations as i had parent steps to its      *)
(* root, and the element it returns is its own parent.                     *)
C35_RootOfTerminates ==
    \A i \in Elems(ds) :
        LET r == root_of(ds, i)
        IN  /\ ~r.panic
            /\ LoopIterations(ds, i) <= Depth(ds, i)
            /\ r.ret \in Elems(ds)
            /\ get_parent(ds, r.ret) = r.ret
            /\ get_parent(r.ds, r.ret) = r.ret

(* root_of returned for an element two parent steps from its root. *)
C35_Witness ==
    /\ last.op = "root_of"
    /\ ~last.panic
    /\ Depth(Before, last.a) = 2
    /\ LoopIterations(Before, last.a) = 2
    /\ last.idx = Root(Before, last.a)

(* x is i or reached from i by parent steps. *)
OnPath(s, i, x) == \E k \in 0 .. len(s) : Ancestor(s, i, k) = x

(* C36: path compression in root_of(i): every node on the path from i to   *)
(* the root whose parent was not the root gets its former grandparent as   *)
(* parent; nodes whose parent was the root, the root and all nodes off the *)
(* path keep their parent; no element's distance to its root grows.        *)
C36_PathCompression ==
    (last.op = "root_of" /\ ~last.panic) =>
        LET i == last.a
            root == Root(Before, i)
        IN  /\ \A x \in Elems(Before) :
                  After.parents[x] =
                      IF OnPath(Before, i, x) /\ Before.parents[x] # root
                      THEN Before.parents[Before.parents[x]]
                      ELSE Before.parents[x]
            /\ After.ranks = Before.ranks
            /\ \A x \in Elems(Before) : Depth(After, x) <= Depth(Before, x)
            /\ last.idx = root

(* root_of was called on an element three parent steps from its root, so   *)
(* that two nodes of the path had a parent other than the root.            *)
C36_Witness ==
    /\ last.op = "root_of"
    /\ ~last.panic
    /\ Depth(Before, last.a) = 3
    /\ Depth(After, last.a) = 2
    /\ Depth(After, Before.parents[last.a]) = 1

(* C37: repeated calls of root_of(i) with no join in between eventually    *)
(* flatten the path: each call on an element two or more parent steps from *)
(* its root strictly decreases that distance, and once i or its parent is  *)
(* the root further calls change no parent pointer.                        *)
C37_RepeatedRootOfFlattens ==
    /\ [](last.op = "root_of" =>
            /\ Depth(pre, last.a) >= 2 => Depth(ds, last.a) < Depth(pre, last.a)
            /\ Depth(pre, last.a) <= 1 => ds = pre
            /\ Depth(ds, last.a) <= 1 => root_of(ds, last.a).ds = ds)
    /\ (last.op = "root_of") ~> (last.op = "root_of" /\ Depth(ds, last.a) <= 1)

(* The second of two root_of calls in a row on an element that started     *)
(* three parent steps from its root brought it next to the root.           *)
C37_Witness ==
    /\ last.op = "root_of"
    /\ Depth(pre, last.a) = 2
    /\ Depth(ds, last.a) = 1
    /\ \E x \in Elems(pre) :
          /\ pre.parents[x] = pre.parents[last.a]
          /\ x # last.a
          /\ Depth(pre, x) = 2
          /\ pre.ranks[Root(pre, x)] = 3

(* The number of sets of a structure. *)
NumSets(s) == Cardinality(Partition(s))

(* C38: in every reachable state the number of sets (the number of groups  *)
(* sets() returns, and of elements that are their own parent) is len()     *)
(* minus the number of joins that returned true since construction or the  *)
(* last clear; a join that returns true lowers it by exactly one and an    *)
(* add_singleton raises it by exactly one.                                 *)
C38_SetCount ==
    /\ NumSets(ds) = len(ds) - joins.ds
    /\ Len(sets(ds).ret) = NumSets(ds)
    /\ Cardinality(Roots(ds)) = NumSets(ds)
    /\ JoinReturned =>
          NumSets(After) = NumSets(Before) - Merged(last.ret)
    /\ last.op = "add_singleton" => NumSets(After) = NumSets(Before) + 1
    /\ last.op = "clear" => NumSets(After) = 0 /\ joins.ds = 0

(* An element was added to a structure in which two joins had returned     *)
(* true, and a join that followed returned false.                          *)
C38_Witness ==
    /\ JoinReturned
    /\ ~last.ret
    /\ last.a # last.b
    /\ joins.ds = 2
    /\ len(ds) = 4
    /\ NumSets(ds) = 2
    /\ \E r \in Roots(ds) : Cardinality(SetOf(ds, r)) = 1

-----------------------------------------------------------------------------
(* Clone.                                                                  *)

Source == IF last.on = "ds" THEN ds ELSE other
Copy == IF last.on = "ds" THEN other ELSE ds
BeforeUntouched == IF last.on = "ds" THEN preOther ELSE pre
AfterUntouched == IF last.on = "ds" THEN other ELSE ds

(* C39: a clone compares equal to the original and has the same sets(),    *)
(* and the two are independent afterwards: a join, query, add_singleton or *)
(* clear on one changes neither the partition nor the length of the other. *)
C39_CloneEqualAndIndependent ==
    /\ last.op = "clone" =>
          /\ Source = Before
          /\ Copy = Source
          /\ eq(Copy, Source).ret
          /\ eq(Source, Copy).ret
          /\ sets(Copy).ret = sets(Source).ret
          /\ len(Copy) = len(Source)
    /\ last.op \in {"join", "root_of", "add_singleton", "clear"} =>
          /\ Partition(AfterUntouched) = Partition(BeforeUntouched)
          /\ len(AfterUntouched) = len(BeforeUntouched)
          /\ AfterUntouched = BeforeUntouched

(* A structure of MaxLenEq elements, not all singletons, was cloned over a *)
(* structure with another partition.                                       *)
C39_Witness ==
    /\ last.op = "clone"
    /\ len(Source) = MaxLenEq
    /\ \E i, j \in Elems(Source) : i # j /\ SameSet(Source, i, j)
    /\ Partition(BeforeUntouched) # Partition(Source)

(* A join on one of two identical structures returned true. *)
C39_WitnessIndependent ==
    /\ JoinReturned
    /\ last.ret
    /\ pre = preOther
    /\ joins.ds > 0
    /\ Partition(AfterUntouched) # Partition(After)

====
